---- MODULE Spec2Model ----
\* Model of ShowMeLineage._process_entities and _convert_entities_to_list
\* (src/tablelineage/tablelineage.py): the aggregation pass over the upstream
\* and downstream lists of one lineage document and the projection of the
\* aggregated entities to output rows.
EXTENDS Integers, Sequences, FiniteSets, TLC

VARIABLES
    catalog_name,   \* the queried table: arguments of _process_entities
    schema_name,
    table_name,
    entities,       \* dict: key -> entity
    order,          \* insertion order of the keys of `entities`
    pc,             \* "upstream" | "downstream" | "done" | "raised"
    lineage,        \* the lineage record the loop of process_lineage is at
    nrec,           \* number of lineage records read so far
    seen,           \* key -> the pipeline descriptors with a parsed timestamp iterated for that key
    upKeys,         \* keys carried by the tableInfo of the records of `upstreams` read so far
    downKeys,       \* the same for `downstreams`
    carried,        \* descriptors carried by the records read so far
    output          \* the list _convert_entities_to_list returns

vars == <<catalog_name, schema_name, table_name, entities, order, pc, lineage,
          nrec, seen, upKeys, downKeys, carried, output>>

---------------------------------------------------------------------------
\* Bounds of the model

\* lineage records in the whole document (both lists together)
MaxRecords == 2
\* pipeline descriptors carried by all records of the document together
MaxPipelineInfos == 2
\* notebook descriptors carried by all records of the document together
MaxNotebookInfos == 1

---------------------------------------------------------------------------
\* Values

\* Python's None
None == "<None>"

\* a value `if x:` takes as false: None or the empty string
Falsy(x) == x = None \/ x = ""

databricks_instance == "host"
workspace_id == "w0"

QueryCatalogs == {"a"}
QuerySchemas == {"a"}
QueryTables == {"b"}

\* the (name, catalog_name, schema_name) of the tableInfo of a record: the
\* table a.a.a, the table a.b.a (whose fields, in the order of a record's key,
\* read like those of main_key for the queried a.a.b), and the queried table
\* a.a.b itself
TableNames == {<<"a", "a", "a">>, <<"a", "a", "b">>, <<"b", "a", "a">>}

TableTypes == {"TABLE"}

\* lineage.get('tableInfo'): `present` is FALSE for a record without tableInfo
NoTableInfo ==
    [present |-> FALSE, name |-> None, catalog_name |-> None,
     schema_name |-> None, table_type |-> None]

TableInfos ==
    {NoTableInfo} \cup
    {[present |-> TRUE, name |-> t[1], catalog_name |-> t[2], schema_name |-> t[3],
      table_type |-> type] : t \in TableNames, type \in TableTypes}

\* A lineage_timestamp value. `text` is "none" for a missing/null value,
\* "garbage" for a string that starts with no '%Y-%m-%d %H:%M:%S' date-time,
\* and "datetime" for a string that starts with one: `secs` is that date-time
\* as a number of seconds, `dot` tells whether a '.' follows it and `frac` holds
\* the digits after the '.'.
NoneTs == [text |-> "none", secs |-> 0, dot |-> FALSE, frac |-> <<>>]
GarbageTs == [text |-> "garbage", secs |-> 0, dot |-> FALSE, frac |-> <<>>]

Fracs == {<<5>>}

Timestamps ==
    {NoneTs, GarbageTs} \cup
    [text : {"datetime"}, secs : {1}, dot : {FALSE}, frac : {<<>>}] \cup
    [text : {"datetime"}, secs : {1}, dot : {TRUE}, frac : Fracs]

PipelineIds == {None, "", "p1"}
UpdateIds == {"u1"}

PipelineInfos ==
    [pipeline_id : PipelineIds, update_id : UpdateIds, lineage_timestamp : Timestamps]

NotebookIds == {None, "n1", "n2"}
WorkspaceIds == {"w1"}

NotebookInfos == [notebook_id : NotebookIds, workspace_id : WorkspaceIds]

\* the loop variables `pipeline` and `notebook` before the first iteration
NoPipeline == [pipeline_id |-> None, update_id |-> None, lineage_timestamp |-> NoneTs]
NoNotebook == [notebook_id |-> None, workspace_id |-> None]

---------------------------------------------------------------------------
\* _parse_timestamp

\* the value of the digits after the '.', as microseconds (%f pads on the right)
RECURSIVE Micros(_, _)
Micros(frac, scale) ==
    IF frac = <<>> THEN 0
    ELSE Head(frac) * scale + Micros(Tail(frac), scale \div 10)

\* '%Y-%m-%d %H:%M:%S.%f' matches: a date-time, a '.', one to six digits
MatchesFractional(ts) ==
    ts.text = "datetime" /\ ts.dot /\ Len(ts.frac) >= 1 /\ Len(ts.frac) <= 6

\* '%Y-%m-%d %H:%M:%S' matches: a date-time and nothing after it
MatchesPlain(ts) ==
    ts.text = "datetime" /\ ~ts.dot /\ ts.frac = <<>>

\* the outcome of _parse_timestamp: "TypeError" for None (strptime wants a str),
\* "ValueError" when no format matches, else "ok"
ParseOutcome(ts) ==
    IF ts.text = "none" THEN "TypeError"
    ELSE IF MatchesFractional(ts) \/ MatchesPlain(ts) THEN "ok"
    ELSE "ValueError"

\* the datetime _parse_timestamp returns, in microseconds
parse_timestamp(ts) ==
    IF MatchesFractional(ts) THEN ts.secs * 1000000 + Micros(ts.frac, 100000)
    ELSE ts.secs * 1000000

---------------------------------------------------------------------------
\* _process_entities

main_key == <<catalog_name, schema_name, table_name, "TABLE">>

\* key = (name, catalog, schema, table_type)
KeyOf(table_info) ==
    <<table_info.name, table_info.catalog_name, table_info.schema_name,
      table_info.table_type>>

NewEntity(name, catalog, schema, type) ==
    [name |-> name, catalog_name |-> catalog, schema_name |-> schema, type |-> type,
     latest_pipeline_id |-> None, latest_update_id |-> None,
     latest_pipeline_lineage_timestamp |-> NoneTs,
     lineage_direction |-> {}, notebook_links |-> {}]

NoLineage ==
    [active |-> FALSE, tableInfo |-> NoTableInfo, pipelineInfos |-> 0,
     notebookInfos |-> 0, done |-> 0, pipeline |-> NoPipeline, notebook |-> NoNotebook]

NotebookLink(notebook) ==
    <<"https://", databricks_instance, "/editor/notebooks/", notebook.notebook_id,
      "?o=", notebook.workspace_id>>

\* mutant: pipelineInfos are read whatever the direction
IteratesPipelinesAnyDirection(rec, direction) ==
    rec.active /\ rec.tableInfo.present

\* the branch of process_lineage the current record takes
IteratesPipelines(rec, direction) ==
    rec.active /\ rec.tableInfo.present /\ direction = "upstream"

IteratesNotebooks(rec, direction) ==
    rec.active /\ (~rec.tableInfo.present \/ direction = "downstream")

\* the loop over the current record's descriptors has come to its end
RecordFinished ==
    \/ ~lineage.active
    \/ IteratesPipelines(lineage, pc) /\ lineage.done = lineage.pipelineInfos
    \/ IteratesNotebooks(lineage, pc) /\ lineage.done = lineage.notebookInfos
    \/ ~IteratesPipelines(lineage, pc) /\ ~IteratesNotebooks(lineage, pc)

Running == pc \in {"upstream", "downstream"}

---------------------------------------------------------------------------
\* _convert_entities_to_list

\* mutant: membership instead of equality with the one-element set
DirectionByMembership(entity) ==
    IF "upstream" \in entity.lineage_direction THEN "upstream"
    ELSE IF "downstream" \in entity.lineage_direction THEN "downstream"
    ELSE "NA"

Direction(entity) ==
    IF entity.lineage_direction = {"upstream"} THEN "upstream"
    ELSE IF entity.lineage_direction = {"downstream"} THEN "downstream"
    ELSE "NA"

PipelineUrl(pipeline_id, update_id) ==
    <<"https://", databricks_instance, "/pipelines/", pipeline_id, "/updates/",
      update_id, "?o=", workspace_id>>

NoLink == <<None>>

\* mutant: `is not None` instead of truthiness
PipelineLinkNonNull(entity) ==
    IF entity.latest_pipeline_id # None /\ entity.latest_update_id # None
    THEN PipelineUrl(entity.latest_pipeline_id, entity.latest_update_id)
    ELSE NoLink

PipelineLink(entity) ==
    IF ~Falsy(entity.latest_pipeline_id) /\ ~Falsy(entity.latest_update_id)
    THEN PipelineUrl(entity.latest_pipeline_id, entity.latest_update_id)
    ELSE NoLink

\* the order sorted() puts two notebook links in: the order of their strings,
\* which is the order of the notebook ids and then of the workspace ids
IdRank(id) ==
    CASE id = "n1" -> 1 [] id = "n2" -> 2 [] id = "w1" -> 1 [] OTHER -> 0

LinkBefore(l1, l2) ==
    \/ IdRank(l1[4]) < IdRank(l2[4])
    \/ IdRank(l1[4]) = IdRank(l2[4]) /\ IdRank(l1[6]) < IdRank(l2[6])

RECURSIVE SortedLinks(_)
SortedLinks(links) ==
    IF links = {} THEN <<>>
    ELSE LET first == CHOOSE l \in links : \A m \in links \ {l} : LinkBefore(l, m)
         IN  <<first>> \o SortedLinks(links \ {first})

\* json.dumps(sorted(links)) if links else "null"
NotebookLinksColumn(entity) ==
    IF entity.notebook_links = {} THEN <<"null">>
    ELSE SortedLinks(entity.notebook_links)

Row(entity) ==
    [entity_catalog |-> catalog_name,
     entity_schema |-> schema_name,
     entity_name |-> table_name,
     lineage_direction |-> Direction(entity),
     catalog_name |-> entity.catalog_name,
     schema_name |-> entity.schema_name,
     table_name |-> entity.name,
     type |-> entity.type,
     latest_pipeline_id |-> entity.latest_pipeline_id,
     latest_update_id |-> entity.latest_update_id,
     latest_pipeline_lineage_timestamp |-> entity.latest_pipeline_lineage_timestamp,
     pipeline_link |-> PipelineLink(entity),
     notebook_links |-> NotebookLinksColumn(entity)]

convert_entities_to_list(ents, keys) ==
    [i \in 1..Len(keys) |-> Row(ents[keys[i]])]

---------------------------------------------------------------------------
\* The aggregation pass

Init ==
    /\ catalog_name \in QueryCatalogs
    /\ schema_name \in QuerySchemas
    /\ table_name \in QueryTables
    /\ entities = (main_key :> NewEntity(table_name, catalog_name, schema_name, "TABLE"))
    /\ order = <<main_key>>
    /\ pc = "upstream"
    /\ lineage = NoLineage
    /\ nrec = 0
    /\ seen = (main_key :> {})
    /\ upKeys = {}
    /\ downKeys = {}
    /\ carried = [pipelines |-> 0, notebooks |-> 0]
    /\ output = <<>>

\* entities after `if key not in entities: entities[key] = {...}` and
\* `entities[key]['lineage_direction'].add(direction)`
Referenced(ents, table_info, direction) ==
    LET key == KeyOf(table_info)
        had == IF key \in DOMAIN ents THEN ents
               ELSE ents @@ (key :> NewEntity(table_info.name, table_info.catalog_name,
                                             table_info.schema_name, table_info.table_type))
    IN  [had EXCEPT ![key].lineage_direction = @ \cup {direction}]

\* `for lineage in lineages:` takes the next record of the list
NextRecord(table_info, npipelines, nnotebooks) ==
    /\ Running
    /\ RecordFinished
    /\ nrec < MaxRecords
    /\ carried.pipelines + npipelines <= MaxPipelineInfos
    /\ carried.notebooks + nnotebooks <= MaxNotebookInfos
    /\ nrec' = nrec + 1
    /\ carried' = [pipelines |-> carried.pipelines + npipelines,
                   notebooks |-> carried.notebooks + nnotebooks]
    /\ lineage' = [active |-> TRUE, tableInfo |-> table_info,
                   pipelineInfos |-> npipelines, notebookInfos |-> nnotebooks,
                   done |-> 0, pipeline |-> NoPipeline, notebook |-> NoNotebook]
    /\ IF table_info.present
       THEN LET key == KeyOf(table_info) IN
            /\ entities' = Referenced(entities, table_info, pc)
            /\ order' = IF key \in DOMAIN entities THEN order ELSE Append(order, key)
            /\ seen' = IF key \in DOMAIN seen THEN seen ELSE seen @@ (key :> {})
            /\ upKeys' = IF pc = "upstream" THEN upKeys \cup {key} ELSE upKeys
            /\ downKeys' = IF pc = "downstream" THEN downKeys \cup {key} ELSE downKeys
       ELSE UNCHANGED <<entities, order, seen, upKeys, downKeys>>
    /\ UNCHANGED <<catalog_name, schema_name, table_name, pc, output>>

\* mutant: no comparison, the descriptor iterated last wins
IsNewerAlways(ts, current_latest) ==
    TRUE

\* mutant: `>=` instead of `>`
IsNewerOrEqual(ts, current_latest) ==
    \/ current_latest.text = "none"
    \/ parse_timestamp(ts) >= parse_timestamp(current_latest)

\* `if not current_latest or lineage_timestamp > self._parse_timestamp(current_latest)`
IsNewer(ts, current_latest) ==
    \/ current_latest.text = "none"
    \/ parse_timestamp(ts) > parse_timestamp(current_latest)

\* the entity after one iteration of `for pipeline in pipeline_infos:` whose
\* timestamp parsed
WithPipeline(entity, pipeline) ==
    IF IsNewer(pipeline.lineage_timestamp, entity.latest_pipeline_lineage_timestamp)
    THEN [entity EXCEPT !.latest_pipeline_id = pipeline.pipeline_id,
                        !.latest_update_id = pipeline.update_id,
                        !.latest_pipeline_lineage_timestamp = pipeline.lineage_timestamp]
    ELSE entity

\* one iteration of `for pipeline in pipeline_infos:`
PipelineStep(pipeline) ==
    /\ Running
    /\ IteratesPipelines(lineage, pc)
    /\ lineage.done < lineage.pipelineInfos
    /\ LET key == KeyOf(lineage.tableInfo)
           outcome == ParseOutcome(pipeline.lineage_timestamp)
       IN  /\ lineage' = [lineage EXCEPT !.done = @ + 1, !.pipeline = pipeline]
           /\ seen' = IF outcome = "ok" THEN [seen EXCEPT ![key] = @ \cup {pipeline}]
                      ELSE seen
           /\ pc' = IF outcome = "TypeError" THEN "raised" ELSE pc
           /\ entities' = IF outcome = "ok"
                          THEN [entities EXCEPT ![key] = WithPipeline(@, pipeline)]
                          ELSE entities
    /\ UNCHANGED <<catalog_name, schema_name, table_name, order, nrec, upKeys,
                   downKeys, carried, output>>

\* mutant: the links of a record without tableInfo go to the entity referenced last
NotebookTargetLastReferenced(rec) ==
    IF rec.tableInfo.present THEN KeyOf(rec.tableInfo) ELSE order[Len(order)]

\* the entity the notebook links of the current record go to
NotebookTarget(rec) ==
    IF rec.tableInfo.present THEN KeyOf(rec.tableInfo) ELSE main_key

WithNotebook(entity, notebook) ==
    IF ~Falsy(notebook.notebook_id) /\ ~Falsy(notebook.workspace_id)
    THEN [entity EXCEPT !.notebook_links = @ \cup {NotebookLink(notebook)}]
    ELSE entity

\* one iteration of `for notebook in notebook_infos:` (either loop)
NotebookStep(notebook) ==
    /\ Running
    /\ IteratesNotebooks(lineage, pc)
    /\ lineage.done < lineage.notebookInfos
    /\ lineage' = [lineage EXCEPT !.done = @ + 1, !.notebook = notebook]
    /\ entities' = [entities EXCEPT ![NotebookTarget(lineage)] = WithNotebook(@, notebook)]
    /\ UNCHANGED <<catalog_name, schema_name, table_name, order, pc, nrec, seen,
                   upKeys, downKeys, carried, output>>

\* process_lineage(upstreams, 'upstream') returns and
\* process_lineage(downstreams, 'downstream') starts
StartDownstreams ==
    /\ pc = "upstream"
    /\ RecordFinished
    /\ pc' = "downstream"
    /\ lineage' = NoLineage
    /\ UNCHANGED <<catalog_name, schema_name, table_name, entities, order, nrec, seen,
                   upKeys, downKeys, carried, output>>

\* process_lineage(downstreams, 'downstream') returns and the entities are
\* converted to the list of rows
Return ==
    /\ pc = "downstream"
    /\ RecordFinished
    /\ pc' = "done"
    /\ lineage' = NoLineage
    /\ output' = convert_entities_to_list(entities, order)
    /\ UNCHANGED <<catalog_name, schema_name, table_name, entities, order, nrec, seen,
                   upKeys, downKeys, carried>>

Next ==
    \/ \E table_info \in TableInfos, np \in 0..MaxPipelineInfos, nn \in 0..MaxNotebookInfos :
           NextRecord(table_info, np, nn)
    \/ \E pipeline \in PipelineInfos : PipelineStep(pipeline)
    \/ \E notebook \in NotebookInfos : NotebookStep(notebook)
    \/ StartDownstreams
    \/ Return

Spec == Init /\ [][Next]_vars

---------------------------------------------------------------------------
\* Properties

Trio(entity) ==
    <<entity.latest_pipeline_id, entity.latest_update_id,
      entity.latest_pipeline_lineage_timestamp>>

TrioOf(pipeline) ==
    <<pipeline.pipeline_id, pipeline.update_id, pipeline.lineage_timestamp>>

NoTrio == <<None, None, NoneTs>>

Identity(row) == <<row.catalog_name, row.schema_name, row.table_name, row.type>>

\* the step just taken was an iteration of a descriptor loop of the current record
DescriptorStep == nrec' = nrec /\ lineage.active /\ lineage'.done = lineage.done + 1

\* the trio and the notebook links an entity has before the step (those of a
\* fresh entity when the step creates it)
TrioBefore(k) == IF k \in DOMAIN entities THEN Trio(entities[k]) ELSE NoTrio
LinksBefore(k) == IF k \in DOMAIN entities THEN entities[k].notebook_links ELSE {}

\* C1: no two output rows carry the same (catalog_name, schema_name,
\* table_name, type) identity.
C1_UniqueIdentity ==
    pc = "done" =>
        \A i, j \in 1..Len(output) :
            i # j => Identity(output[i]) # Identity(output[j])

\* C2: the direction-set of the main entity stays empty through the pass and
\* the main entity's output row has lineage_direction "NA".
C2_MainDirectionNA ==
    /\ entities[main_key].lineage_direction = {}
    /\ pc = "done" => output[1].lineage_direction = "NA"

\* C3: every key carried by the tableInfo of a record has an output row, whose
\* lineage_direction is "upstream" if the key occurs only in upstreams,
\* "downstream" if only in downstreams, and "NA" if in both.
C3_DirectionByLists ==
    pc = "done" =>
        /\ \A k \in upKeys \cup downKeys : \E i \in 1..Len(order) : order[i] = k
        /\ \A i \in 1..Len(output) :
              LET k == order[i] IN
              /\ k \in upKeys \ downKeys => output[i].lineage_direction = "upstream"
              /\ k \in downKeys \ upKeys => output[i].lineage_direction = "downstream"
              /\ k \in upKeys \cap downKeys => output[i].lineage_direction = "NA"

C3_Witness ==
    /\ pc = "done"
    /\ \E i, j \in 1..Len(output) :
          /\ order[i] \in upKeys \ downKeys
          /\ order[j] \in downKeys \ upKeys
          /\ output[i].lineage_direction = "upstream"
          /\ output[j].lineage_direction = "downstream"

\* C4: when the descriptors with a parseable timestamp seen for an entity are
\* two descriptors with timestamps T1 < T2, whatever their order of arrival
\* and whether they came in one record or in two, the entity's latest trio is
\* the trio of the T2 descriptor (in every state, so at the end of the pass).
C4_LatestOfTwo ==
    \A k \in DOMAIN seen :
        \A d1, d2 \in seen[k] :
            (/\ seen[k] = {d1, d2}
             /\ parse_timestamp(d1.lineage_timestamp) < parse_timestamp(d2.lineage_timestamp))
            => Trio(entities[k]) = TrioOf(d2)

\* the T2 descriptor arrived first: the descriptor just iterated is the T1 one
C4_Witness ==
    /\ lineage.active
    /\ lineage.tableInfo.present
    /\ lineage.done >= 1
    /\ LET k == KeyOf(lineage.tableInfo) IN
       \E d2 \in seen[k] :
          /\ seen[k] = {lineage.pipeline, d2}
          /\ parse_timestamp(lineage.pipeline.lineage_timestamp)
                < parse_timestamp(d2.lineage_timestamp)
          /\ Trio(entities[k]) = TrioOf(d2)

\* C5: a step on a record without tableInfo (in either list) creates no entity,
\* leaves every other entity unchanged, leaves the main entity's direction-set
\* and latest trio unchanged, and adds to the main entity's notebook links
\* exactly the link of the notebook descriptor it iterates, if that is valid.
C5_NoTableInfoFrame ==
    [][(lineage'.active /\ ~lineage'.tableInfo.present) =>
        /\ DOMAIN entities' = DOMAIN entities
        /\ order' = order
        /\ \A k \in DOMAIN entities \ {main_key} : entities'[k] = entities[k]
        /\ entities'[main_key].lineage_direction = entities[main_key].lineage_direction
        /\ Trio(entities'[main_key]) = Trio(entities[main_key])
        /\ entities'[main_key].notebook_links =
              entities[main_key].notebook_links \cup
              (IF /\ DescriptorStep
                  /\ ~Falsy(lineage'.notebook.notebook_id)
                  /\ ~Falsy(lineage'.notebook.workspace_id)
               THEN {NotebookLink(lineage'.notebook)}
               ELSE {})
      ]_vars

C5_Witness ==
    /\ pc = "upstream"
    /\ lineage.active
    /\ ~lineage.tableInfo.present
    /\ lineage.done >= 1
    /\ ~Falsy(lineage.notebook.notebook_id)
    /\ NotebookLink(lineage.notebook) \in entities[main_key].notebook_links
    /\ \E k \in DOMAIN entities \ {main_key} : entities[k].notebook_links = {}

\* C6: a pipeline descriptor whose lineage_timestamp does not parse
\* (unrecognized format, or missing/null) is skipped: the pass does not raise,
\* goes on, and no entity changes.
C6_UnparsedSkipped ==
    [][(/\ DescriptorStep
        /\ IteratesPipelines(lineage, pc)
        /\ ParseOutcome(lineage'.pipeline.lineage_timestamp) # "ok")
       => (pc' = pc /\ entities' = entities)
      ]_vars

\* C7 as claimed: pipeline_link is null whenever latest_pipeline_id or
\* latest_update_id is null, and otherwise is the pipeline-update URL of the
\* row's two ids.
C7_LinkIffNonNull ==
    pc = "done" =>
        \A i \in 1..Len(output) :
            IF output[i].latest_pipeline_id = None \/ output[i].latest_update_id = None
            THEN output[i].pipeline_link = NoLink
            ELSE output[i].pipeline_link =
                    PipelineUrl(output[i].latest_pipeline_id, output[i].latest_update_id)

\* C7 as amended: pipeline_link is null whenever latest_pipeline_id or
\* latest_update_id is null or the empty string, and otherwise is the
\* pipeline-update URL of the row's two ids.
C7_LinkIffTruthy ==
    pc = "done" =>
        \A i \in 1..Len(output) :
            IF \/ output[i].latest_pipeline_id \in {None, ""}
               \/ output[i].latest_update_id \in {None, ""}
            THEN output[i].pipeline_link = NoLink
            ELSE output[i].pipeline_link =
                    <<"https://", databricks_instance, "/pipelines/",
                      output[i].latest_pipeline_id, "/updates/",
                      output[i].latest_update_id, "?o=", workspace_id>>

C7_Witness ==
    /\ pc = "done"
    /\ \E i, j \in 1..Len(output) :
          /\ output[i].latest_pipeline_id = ""
          /\ output[i].latest_update_id = "u1"
          /\ output[i].pipeline_link = NoLink
          /\ output[j].latest_pipeline_id = "p1"
          /\ output[j].pipeline_link # NoLink

\* C8: in every state of the pass and in every output row, an entity's
\* latest_pipeline_id, latest_update_id and latest_pipeline_lineage_timestamp
\* are all null or all non-null.
C8_TrioSetOrUnset ==
    /\ \A k \in DOMAIN entities :
          \/ Trio(entities[k]) = NoTrio
          \/ /\ entities[k].latest_pipeline_id # None
             /\ entities[k].latest_update_id # None
             /\ entities[k].latest_pipeline_lineage_timestamp # NoneTs
    /\ \A i \in 1..Len(output) :
          \/ Trio(output[i]) = NoTrio
          \/ /\ output[i].latest_pipeline_id # None
             /\ output[i].latest_update_id # None
             /\ output[i].latest_pipeline_lineage_timestamp # NoneTs

\* C9: an entity's latest trio changes only at a step that iterates a pipeline
\* descriptor of a record of that entity whose parsed timestamp strictly
\* exceeds the stored one (or when none is stored), and then becomes that
\* descriptor's trio; the stored timestamp never decreases, and a descriptor
\* with a timestamp equal to the stored one leaves the trio in place.
C9_ReplacedOnlyByNewer ==
    [][\A k \in DOMAIN entities' :
        LET old == TrioBefore(k)
            new == Trio(entities'[k])
            d == lineage'.pipeline
        IN  /\ new # old =>
                 /\ DescriptorStep
                 /\ IteratesPipelines(lineage, pc)
                 /\ KeyOf(lineage.tableInfo) = k
                 /\ ParseOutcome(d.lineage_timestamp) = "ok"
                 /\ \/ old[3] = NoneTs
                    \/ parse_timestamp(d.lineage_timestamp) > parse_timestamp(old[3])
                 /\ new = TrioOf(d)
            /\ old[3] # NoneTs =>
                 /\ new[3] # NoneTs
                 /\ parse_timestamp(new[3]) >= parse_timestamp(old[3])
            /\ (/\ DescriptorStep
                /\ IteratesPipelines(lineage, pc)
                /\ KeyOf(lineage.tableInfo) = k
                /\ old[3] # NoneTs
                /\ ParseOutcome(d.lineage_timestamp) = "ok"
                /\ parse_timestamp(d.lineage_timestamp) = parse_timestamp(old[3]))
               => new = old
      ]_vars

\* a descriptor with the stored timestamp and other ids has just been iterated
\* and the trio of the earlier descriptor is in place
C9_Witness ==
    /\ lineage.active
    /\ lineage.tableInfo.present
    /\ lineage.done >= 1
    /\ pc = "upstream"
    /\ LET e == entities[KeyOf(lineage.tableInfo)] IN
       /\ e.latest_pipeline_lineage_timestamp # NoneTs
       /\ ParseOutcome(lineage.pipeline.lineage_timestamp) = "ok"
       /\ parse_timestamp(lineage.pipeline.lineage_timestamp)
             = parse_timestamp(e.latest_pipeline_lineage_timestamp)
       /\ TrioOf(lineage.pipeline) # Trio(e)

\* C10: a step on a downstream record with tableInfo changes no entity's
\* latest trio, a step on an upstream record with tableInfo changes no
\* entity's notebook links, and in both cases no entity other than the
\* record's own changes, whose direction-set gains the direction of the list.
C10_WrongDirectionIgnored ==
    [][(lineage'.active /\ lineage'.tableInfo.present /\ pc' \in {"upstream", "downstream"}) =>
        LET key == KeyOf(lineage'.tableInfo) IN
        /\ DOMAIN entities' = DOMAIN entities \cup {key}
        /\ \A k \in DOMAIN entities \ {key} : entities'[k] = entities[k]
        /\ entities'[key].lineage_direction =
              (IF key \in DOMAIN entities THEN entities[key].lineage_direction ELSE {})
              \cup {pc'}
        /\ pc' = "downstream" =>
              \A k \in DOMAIN entities' : Trio(entities'[k]) = TrioBefore(k)
        /\ pc' = "upstream" =>
              \A k \in DOMAIN entities' : entities'[k].notebook_links = LinksBefore(k)
      ]_vars

\* a downstream record that carries pipeline descriptors has been processed to
\* its end, for an entity whose latest trio an upstream record had set
C10_Witness ==
    /\ pc = "downstream"
    /\ lineage.active
    /\ lineage.tableInfo.present
    /\ lineage.pipelineInfos >= 1
    /\ lineage.notebookInfos >= 1
    /\ lineage.done = lineage.notebookInfos
    /\ entities[KeyOf(lineage.tableInfo)].latest_pipeline_lineage_timestamp # NoneTs
    /\ entities[KeyOf(lineage.tableInfo)].notebook_links # {}
====
